---- MODULE Spec2Model ----
(***************************************************************************)
(* The COVID-19 dashboard script src/app.py as a state machine.            *)
(*                                                                         *)
(* One execution of the script is a walk of pc through its top-level       *)
(* statements: load (91-96), multiselect (103-108), date_input (110-115),  *)
(* filter (117-121), snapshot (123-125), header (127-130), cards           *)
(* (132-175), trend (182-199), map (201-217), bar (223-236), scatter       *)
(* (238-251), footer (253-257).  An uncaught exception ends the execution  *)
(* in pc = "raised"; st.stop() ends it in pc = "stopped".  A user          *)
(* interaction with a control starts the next execution from the top; only *)
(* the st.cache_data entry of load_data survives between executions.       *)
(***************************************************************************)
EXTENDS Integers, Sequences, FiniteSets, TLC

VARIABLES
    pc,                 \* statement the current execution is at
    remote,             \* what the source URL serves at the moment
    cache,              \* the st.cache_data entry of load_data (0 or 1 entries)
    now,                \* wall clock, seconds
    fetches,            \* log of the fetches of the source URL made so far
    df,                 \* app.py: df
    selected_countries, \* app.py: selected_countries
    date_range,         \* app.py: date_range (a tuple)
    filtered_df,        \* app.py: filtered_df
    latest_date,        \* app.py: latest_date
    global_data,        \* app.py: global_data
    map_df,             \* app.py: map_df
    latest_selection,   \* app.py: latest_selection
    shown,              \* what this execution has put on the page
    num,                \* argument of the last format_num call
    text                \* result of the last format_num call

vars == <<pc, remote, cache, now, fetches, df, selected_countries, date_range,
          filtered_df, latest_date, global_data, map_df, latest_selection,
          shown, num, text>>

(***************************************************************************)
(* Bounds of the model.                                                    *)
(***************************************************************************)
MaxRows == 3        \* rows of a dataset
MaxDate == 2        \* dates are 1..MaxDate (days since the first record)
MaxFetches == 3     \* fetches logged before the session is cut off
MaxClock == 10800   \* seconds of wall clock explored

Locations == {"World", "India"}
Dates == 1..MaxDate

(***************************************************************************)
(* Numbers.  A metric is a float64 column: a count or NaN.  Counts go past *)
(* 2^31, so a count n is kept exactly as n = mil * 10^6 + rem.             *)
(***************************************************************************)
Million == 1000000

NaN == [nan |-> TRUE, mil |-> 0, rem |-> 0]

Number(m, r) == [nan |-> FALSE, mil |-> m, rem |-> r]

\* num >= k * 10^6 as Python evaluates it: every comparison with NaN is False.
GeMillions(n, k) == ~n.nan /\ n.mil >= k

Digit(d) == <<"0", "1", "2", "3", "4", "5", "6", "7", "8", "9">>[d + 1]

RECURSIVE Digits(_)
\* str of a non-negative int, one character per element
Digits(n) == IF n < 10 THEN <<Digit(n)>> ELSE Digits(n \div 10) \o <<Digit(n % 10)>>

\* f"{x:.2f}" where x = h / 100
Fixed2(h) == Digits(h \div 100) \o <<".", Digit((h % 100) \div 10), Digit(h % 10)>>

RECURSIVE Grouped(_)
\* f"{n:,.0f}" of an integral n >= 0
Grouped(n) ==
    IF n < 1000 THEN Digits(n)
    ELSE Grouped(n \div 1000)
         \o <<",", Digit((n % 1000) \div 100), Digit((n % 100) \div 10), Digit(n % 10)>>

\* round(a / b) to the nearest integer; an exact half (which the quotient's
\* binary value decides in Python) goes to the even neighbour.
RoundDiv(a, b) ==
    LET q == a \div b
        r == a % b
    IN  IF 2 * r > b \/ (2 * r = b /\ q % 2 = 1) THEN q + 1 ELSE q

\* format_num without its first line
format_num_no_billions(n) ==
    IF GeMillions(n, 1)
    THEN Fixed2(n.mil * 100 + RoundDiv(n.rem, 10000)) \o <<"M">>
    ELSE IF n.nan THEN <<"n", "a", "n">> ELSE Grouped(n.mil * Million + n.rem)

\* app.py 135-138
format_num(n) ==
    IF GeMillions(n, 1000)
    THEN Fixed2((n.mil \div 10) + RoundDiv((n.mil % 10) * Million + n.rem, 10 * Million))
         \o <<"B">>
    ELSE IF GeMillions(n, 1)
    THEN Fixed2(n.mil * 100 + RoundDiv(n.rem, 10000)) \o <<"M">>
    ELSE IF n.nan THEN <<"n", "a", "n">> ELSE Grouped(n.mil * Million + n.rem)

(***************************************************************************)
(* The dataset.  A record is one row of the CSV: location, date and the    *)
(* metric columns, of which total_cases stands for them all (every card    *)
(* reads its column through the same format_num call).                     *)
(***************************************************************************)
Metrics == {NaN, Number(1, 500000)}

Records == [location : Locations, date : Dates, total_cases : Metrics]

\* one row per (location, date), in any order, at least one row
Datasets ==
    {d \in UNION {[1..n -> Records] : n \in 1..MaxRows} :
        \A i, j \in DOMAIN d :
            (d[i].location = d[j].location /\ d[i].date = d[j].date) => i = j}

Unreachable == [status |-> "unreachable", rows |-> <<>>]   \* pd.read_csv raises
Malformed == [status |-> "malformed", rows |-> <<>>]       \* pd.to_datetime raises
Served(d) == [status |-> "ok", rows |-> d]

NoRecord == [location |-> "", date |-> 0, total_cases |-> NaN]

DateSet(d) == {d[i].date : i \in DOMAIN d}

\* df['date'].min(), df['date'].max()
MinOf(S) == CHOOSE m \in S : \A x \in S : m <= x
MaxOf(S) == CHOOSE m \in S : \A x \in S : m >= x

(***************************************************************************)
(* load_data, app.py 84-89: the function body behind st.cache_data with    *)
(* ttl=3600.  An entry answers calls made less than ttl seconds after it   *)
(* was stored; a call that raises stores nothing.                          *)
(***************************************************************************)
TTL == 3600

\* load_data behind a cache whose entries never expire
load_data_no_expiry(c, t, r) ==
    IF c # <<>>
    THEN [raised |-> FALSE, value |-> c[1].value, cache |-> c, fetched |-> 0]
    ELSE IF r.status # "ok"
    THEN [raised |-> TRUE, value |-> <<>>, cache |-> <<>>, fetched |-> 1]
    ELSE [raised |-> FALSE, value |-> r.rows,
          cache |-> <<[value |-> r.rows, at |-> t]>>, fetched |-> 1]

load_data(c, t, r) ==
    IF c # <<>> /\ t - c[1].at < TTL
    THEN [raised |-> FALSE, value |-> c[1].value, cache |-> c, fetched |-> 0]
    ELSE IF r.status # "ok"
    THEN [raised |-> TRUE, value |-> <<>>, cache |-> <<>>, fetched |-> 1]
    ELSE [raised |-> FALSE, value |-> r.rows,
          cache |-> <<[value |-> r.rows, at |-> t]>>, fetched |-> 1]

(***************************************************************************)
(* The filter mask, app.py 118-121.                                        *)
(***************************************************************************)
\* the mask with the end of the interval left out
mask_exclusive_end(row, sel, dr) ==
    /\ row.location \in sel
    /\ row.date >= dr[1]
    /\ row.date < dr[2]

\* the mask reading an empty selection as "every location"
mask_empty_means_all(row, sel, dr) ==
    /\ (sel = {} \/ row.location \in sel)
    /\ row.date >= dr[1]
    /\ row.date <= dr[2]

mask(row, sel, dr) ==
    /\ row.location \in sel
    /\ row.date >= dr[1]
    /\ row.date <= dr[2]

\* app.py 125: df[df['location'] == 'World']
WorldRows(d) == SelectSeq(d, LAMBDA row : row.location = "World")

\* what st.date_input hands back for a range value bounded by [lo, hi]: the
\* two ends once both are picked, the start alone while the end is not
DateInputValues(lo, hi) ==
    {<<s>> : s \in lo..hi} \cup {r \in (lo..hi) \X (lo..hi) : r[1] <= r[2]}

(***************************************************************************)
(* The script, statement by statement.                                     *)
(***************************************************************************)
Terminal == {"done", "stopped", "raised"}

script == <<df, selected_countries, date_range, filtered_df, latest_date,
            global_data, map_df, latest_selection, num, text>>

IndexErrorDateRange == "IndexError: date_range[1]"
IndexErrorIloc == "IndexError: iloc[-1]"

\* an uncaught exception: Streamlit shows it and the execution is over
Raise(exception) ==
    /\ pc' = "raised"
    /\ shown' = shown \cup {exception}

\* the snapshot falling back on the last row of df when there is no "World" row
latest_snapshot_fallback(d) ==
    LET w == WorldRows(d) IN
        IF w = <<>> THEN [raised |-> FALSE, row |-> d[Len(d)]]
        ELSE [raised |-> FALSE, row |-> w[Len(w)]]

\* app.py 125: df[df['location'] == 'World'].iloc[-1]; .iloc[-1] of an empty
\* frame is an IndexError
latest_snapshot(d) ==
    LET w == WorldRows(d) IN
        IF w = <<>> THEN [raised |-> TRUE, row |-> NoRecord]
        ELSE [raised |-> FALSE, row |-> w[Len(w)]]

\* the load statement with st.stop() left out of its except branch
Load_no_stop ==
    /\ pc = "load"
    /\ LET r == load_data(cache, now, remote) IN
        /\ cache' = r.cache
        /\ fetches' = IF r.fetched = 1
                       THEN Append(fetches, [at |-> now, ok |-> ~r.raised])
                       ELSE fetches
        /\ df' = r.value
        /\ shown' = IF r.raised THEN shown \cup {"error"} ELSE shown
        /\ pc' = "multiselect"
    /\ UNCHANGED <<remote, now, selected_countries, date_range, filtered_df,
                   latest_date, global_data, map_df, latest_selection, num, text>>

\* app.py 91-96
Load ==
    /\ pc = "load"
    /\ LET r == load_data(cache, now, remote) IN
        /\ cache' = r.cache
        /\ fetches' = IF r.fetched = 1
                       THEN Append(fetches, [at |-> now, ok |-> ~r.raised])
                       ELSE fetches
        /\ IF r.raised
           THEN /\ shown' = shown \cup {"error"}      \* st.error
                /\ pc' = "stopped"                    \* st.stop
                /\ df' = df
           ELSE /\ df' = r.value
                /\ pc' = "multiselect"
                /\ shown' = shown
    /\ UNCHANGED <<remote, now, selected_countries, date_range, filtered_df,
                   latest_date, global_data, map_df, latest_selection, num, text>>

\* app.py 103-108: the options are the locations of df, and the control hands
\* back the subset the user has selected (the default list of line 107 until
\* the user changes it, for a dataset that holds those four locations)
Multiselect ==
    /\ pc = "multiselect"
    /\ \E sel \in SUBSET {df[i].location : i \in DOMAIN df} :
        selected_countries' = sel
    /\ pc' = "date_input"
    /\ UNCHANGED <<remote, cache, now, fetches, df, date_range, filtered_df,
                   latest_date, global_data, map_df, latest_selection, shown,
                   num, text>>

\* app.py 110-115
DateInput ==
    /\ pc = "date_input"
    /\ \E dr \in DateInputValues(MinOf(DateSet(df)), MaxOf(DateSet(df))) :
        date_range' = dr
    /\ pc' = "filter"
    /\ UNCHANGED <<remote, cache, now, fetches, df, selected_countries,
                   filtered_df, latest_date, global_data, map_df,
                   latest_selection, shown, num, text>>

\* app.py 117-121: date_range[1] of a one-element tuple is an IndexError
Filter ==
    /\ pc = "filter"
    /\ IF Len(date_range) < 2
       THEN /\ Raise(IndexErrorDateRange)
            /\ filtered_df' = filtered_df
       ELSE /\ filtered_df' =
                   SelectSeq(df, LAMBDA row : mask(row, selected_countries, date_range))
            /\ pc' = "snapshot"
            /\ shown' = shown
    /\ UNCHANGED <<remote, cache, now, fetches, df, selected_countries,
                   date_range, latest_date, global_data, map_df,
                   latest_selection, num, text>>

\* app.py 123-125
Snapshot ==
    /\ pc = "snapshot"
    /\ latest_date' = MaxOf(DateSet(df))
    /\ LET r == latest_snapshot(df) IN
        IF r.raised
        THEN /\ Raise(IndexErrorIloc)
             /\ global_data' = global_data
        ELSE /\ global_data' = r.row
             /\ pc' = "header"
             /\ shown' = shown
    /\ UNCHANGED <<remote, cache, now, fetches, df, selected_countries,
                   date_range, filtered_df, map_df, latest_selection, num, text>>

\* app.py 127-130: banner, title and "Last Updated: latest_date"
Header ==
    /\ pc = "header"
    /\ shown' = shown \cup {"header"}
    /\ pc' = "cards"
    /\ UNCHANGED <<remote, cache, now, fetches, script>>

\* app.py 132-175: the metric cards, each through format_num
Cards ==
    /\ pc = "cards"
    /\ num' = global_data.total_cases
    /\ text' = format_num(global_data.total_cases)
    /\ shown' = shown \cup {"cards"}
    /\ pc' = "trend"
    /\ UNCHANGED <<remote, cache, now, fetches, df, selected_countries,
                   date_range, filtered_df, latest_date, global_data, map_df,
                   latest_selection>>

\* app.py 182-199: line chart of filtered_df
Trend ==
    /\ pc = "trend"
    /\ shown' = shown \cup {"trend"}
    /\ pc' = "map"
    /\ UNCHANGED <<remote, cache, now, fetches, script>>

\* app.py 201-217: choropleth of the rows at latest_date
Map ==
    /\ pc = "map"
    /\ map_df' = SelectSeq(df, LAMBDA row : row.date = latest_date)
    /\ shown' = shown \cup {"map"}
    /\ pc' = "bar"
    /\ UNCHANGED <<remote, cache, now, fetches, df, selected_countries,
                   date_range, filtered_df, latest_date, global_data,
                   latest_selection, num, text>>

\* app.py 223-236: bar chart of the selected locations at latest_date
Bar ==
    /\ pc = "bar"
    /\ latest_selection' =
           SelectSeq(df, LAMBDA row : row.location \in selected_countries
                                      /\ row.date = latest_date)
    /\ shown' = shown \cup {"bar"}
    /\ pc' = "scatter"
    /\ UNCHANGED <<remote, cache, now, fetches, df, selected_countries,
                   date_range, filtered_df, latest_date, global_data, map_df,
                   num, text>>

\* app.py 238-251: scatter of filtered_df
Scatter ==
    /\ pc = "scatter"
    /\ shown' = shown \cup {"scatter"}
    /\ pc' = "footer"
    /\ UNCHANGED <<remote, cache, now, fetches, script>>

\* app.py 253-257
Footer ==
    /\ pc = "footer"
    /\ shown' = shown \cup {"footer"}
    /\ pc' = "done"
    /\ UNCHANGED <<remote, cache, now, fetches, script>>

\* a user interaction with a control: the script runs again from the top
Rerun ==
    /\ pc \in Terminal
    /\ Len(fetches) < MaxFetches
    /\ pc' = "load"
    /\ shown' = {}
    /\ df' = <<>>
    /\ selected_countries' = {}
    /\ date_range' = <<>>
    /\ filtered_df' = <<>>
    /\ latest_date' = 0
    /\ global_data' = NoRecord
    /\ map_df' = <<>>
    /\ latest_selection' = <<>>
    /\ num' = NaN
    /\ text' = <<>>
    /\ UNCHANGED <<remote, cache, now, fetches>>

Fresh ==
    /\ shown = {}
    /\ df = <<>>
    /\ selected_countries = {}
    /\ date_range = <<>>
    /\ filtered_df = <<>>
    /\ latest_date = 0
    /\ global_data = NoRecord
    /\ map_df = <<>>
    /\ latest_selection = <<>>
    /\ num = NaN
    /\ text = <<>>

\* a new session: nothing cached, the source serving some dataset or failing
Init ==
    /\ pc = "load"
    /\ remote \in {Served(d) : d \in Datasets} \cup {Unreachable, Malformed}
    /\ cache = <<>>
    /\ now = 0
    /\ fetches = <<>>
    /\ Fresh

Next ==
    \/ Load
    \/ Multiselect
    \/ DateInput
    \/ Filter
    \/ Snapshot
    \/ Header
    \/ Cards
    \/ Trend
    \/ Map
    \/ Bar
    \/ Scatter
    \/ Footer
    \/ Rerun

Spec == Init /\ [][Next]_vars

(***************************************************************************)
(* The session over time: between two executions the clock advances and    *)
(* the source may start serving something else.                            *)
(***************************************************************************)
Probe(loc) == <<[location |-> loc, date |-> 1, total_cases |-> NaN]>>

CacheRemotes == {Unreachable, Malformed, Served(Probe("World")), Served(Probe("India"))}

Tick ==
    /\ pc \in Terminal
    /\ \E d \in {TTL \div 2, TTL - 1} :
        /\ now + d <= MaxClock
        /\ now' = now + d
    /\ UNCHANGED <<pc, remote, cache, fetches, script, shown>>

RemoteChange ==
    /\ pc \in Terminal
    /\ \E r \in CacheRemotes \ {remote} : remote' = r
    /\ UNCHANGED <<pc, cache, now, fetches, script, shown>>

InitCache ==
    /\ pc = "load"
    /\ remote \in CacheRemotes
    /\ cache = <<>>
    /\ now = 0
    /\ fetches = <<>>
    /\ Fresh

NextCache ==
    \/ Next
    \/ Tick
    \/ RemoteChange

SpecCache == InitCache /\ [][NextCache]_vars

(***************************************************************************)
(* The filter on its own: the statement at app.py 117-121 entered with any *)
(* dataset, any set of locations and any pair of dates.                    *)
(***************************************************************************)
InitFilter ==
    /\ pc = "filter"
    /\ df \in Datasets
    /\ remote = Served(df)
    /\ cache = <<[value |-> df, at |-> 0]>>
    /\ now = 0
    /\ fetches = <<[at |-> 0, ok |-> TRUE]>>
    /\ selected_countries \in SUBSET Locations
    /\ date_range \in Dates \X Dates
    /\ shown = {}
    /\ filtered_df = <<>>
    /\ latest_date = 0
    /\ global_data = NoRecord
    /\ map_df = <<>>
    /\ latest_selection = <<>>
    /\ num = NaN
    /\ text = <<>>

SpecFilter == InitFilter /\ [][Filter]_vars

(***************************************************************************)
(* format_num on its own, app.py 135-138, called with a count or NaN.      *)
(***************************************************************************)
MilSamples == {0, 1, 2, 12, 999, 1000, 1001, 2300}
RemSamples == {0, 1, 999, 1000, 12345, 500000, 999999}
NumSamples == {NaN} \cup {Number(m, r) : m \in MilSamples, r \in RemSamples}

Format ==
    /\ pc = "format"
    /\ text' = format_num(num)
    /\ pc' = "formatted"
    /\ UNCHANGED <<remote, cache, now, fetches, df, selected_countries,
                   date_range, filtered_df, latest_date, global_data, map_df,
                   latest_selection, shown, num>>

InitFormat ==
    /\ pc = "format"
    /\ num \in NumSamples
    /\ text = <<>>
    /\ remote = Unreachable
    /\ cache = <<>>
    /\ now = 0
    /\ fetches = <<>>
    /\ shown = {}
    /\ df = <<>>
    /\ selected_countries = {}
    /\ date_range = <<>>
    /\ filtered_df = <<>>
    /\ latest_date = 0
    /\ global_data = NoRecord
    /\ map_df = <<>>
    /\ latest_selection = <<>>

SpecFormat == InitFormat /\ [][Format]_vars

(***************************************************************************)
(* Properties.                                                             *)
(***************************************************************************)
AfterFilter == {"snapshot", "header", "cards", "trend", "map", "bar",
                "scatter", "footer", "done"}
AfterSnapshot == AfterFilter \ {"snapshot"}
Charts == {"trend", "map", "bar", "scatter"}

Range(q) == {q[i] : i \in DOMAIN q}

NoWorld(d) == \A i \in DOMAIN d : d[i].location # "World"

\* C1: once the filter has run on a pair of dates (s, e), filtered_df holds
\* exactly the records of df whose location is selected and whose date d has
\* s <= d <= e, each of them once.
FilterExact ==
    (pc \in AfterFilter /\ Len(date_range) = 2) =>
        LET wanted == {r \in Range(df) :
                          /\ r.location \in selected_countries
                          /\ date_range[1] <= r.date
                          /\ r.date <= date_range[2]}
        IN  /\ Range(filtered_df) = wanted
            /\ Len(filtered_df) = Cardinality(wanted)

\* a record dated on the end of the interval, and one dated on its start,
\* have passed the filter, and a record has been left out
FilterExactWitness ==
    /\ pc = "snapshot"
    /\ date_range[1] < date_range[2]
    /\ \E r \in Range(filtered_df) : r.date = date_range[2]
    /\ \E r \in Range(filtered_df) : r.date = date_range[1]
    /\ Len(filtered_df) < Len(df)

\* C2: the snapshot is the "World" record of maximum date, whatever the order
\* of the rows of df.
SnapshotIsLatestWorld ==
    pc \in AfterSnapshot =>
        /\ global_data.location = "World"
        /\ global_data \in Range(df)
        /\ \A r \in Range(df) : r.location = "World" => r.date <= global_data.date

\* C3: with no "World" record in df, the execution never gets past the
\* snapshot statement: it ends in the raised exception, which is on the page,
\* and no card is rendered and no record stands in for the snapshot.
NoWorldRaises ==
    (df # <<>> /\ NoWorld(df)) =>
        /\ pc \notin AfterSnapshot
        /\ "cards" \notin shown
        /\ global_data = NoRecord
        /\ text = <<>>
        /\ (pc = "raised" /\ Len(date_range) = 2) => IndexErrorIloc \in shown

NoWorldRaisesWitness ==
    /\ df # <<>>
    /\ NoWorld(df)
    /\ pc = "raised"
    /\ IndexErrorIloc \in shown

\* C4: when the last fetch failed, the execution past its load statement is
\* stopped with the error on the page and nothing else: no control was read,
\* no filter, snapshot, card or chart was computed or rendered.
LoadFailureHalts ==
    (fetches # <<>> /\ ~fetches[Len(fetches)].ok /\ pc # "load") =>
        /\ pc = "stopped"
        /\ shown = {"error"}
        /\ df = <<>>
        /\ selected_countries = {}
        /\ date_range = <<>>
        /\ filtered_df = <<>>
        /\ latest_date = 0
        /\ global_data = NoRecord
        /\ map_df = <<>>
        /\ latest_selection = <<>>
        /\ text = <<>>

LoadFailureHaltsWitness ==
    /\ pc = "stopped"
    /\ remote = Malformed
    /\ fetches # <<>>
    /\ ~fetches[Len(fetches)].ok
    /\ shown = {"error"}

\* C5: a load made less than 3600 s after the cached entry was stored returns
\* the cached dataset and fetches nothing; a load made 3600 s or more after it
\* makes exactly one fetch, and what that fetch returns is the new entry.
CacheWindow ==
    [][(pc = "load" /\ pc' # "load" /\ cache # <<>>) =>
         IF now - cache[1].at < 3600
         THEN /\ fetches' = fetches
              /\ cache' = cache
              /\ df' = cache[1].value
              /\ pc' = "multiselect"
         ELSE /\ Len(fetches') = Len(fetches) + 1
              /\ fetches'[Len(fetches')].at = now
              /\ remote.status = "ok" =>
                    /\ cache' = <<[value |-> remote.rows, at |-> now]>>
                    /\ df' = remote.rows
                    /\ pc' = "multiselect"]_vars

\* an entry fetched at time 0 answered until it expired, then the next load
\* fetched once more and its result is the entry now
CacheWindowWitness ==
    /\ pc = "multiselect"
    /\ Len(fetches) = 2
    /\ fetches[1] = [at |-> 0, ok |-> TRUE]
    /\ fetches[2] = [at |-> 3600, ok |-> TRUE]
    /\ cache = <<[value |-> df, at |-> 3600]>>
    /\ remote = Served(df)

\* C6: with no location selected, or with start > end, the filter yields the
\* empty view and does not raise, for every dataset.
FilterPermissive ==
    (/\ pc # "filter"
     /\ Len(date_range) = 2
     /\ (selected_countries = {} \/ date_range[1] > date_range[2])) =>
        /\ pc # "raised"
        /\ filtered_df = <<>>

FilterPermissiveWitness ==
    /\ pc = "snapshot"
    /\ date_range[1] > date_range[2]
    /\ selected_countries = Locations
    /\ \E r \in Range(df) : r.location \in selected_countries
    /\ filtered_df = <<>>

IsDigitChar(c) == \E d \in 0..9 : c = Digit(d)

DigitValue(c) == CHOOSE d \in 0..9 : c = Digit(d)

RECURSIVE Value(_)
\* the number a string of digits reads as
Value(q) ==
    IF q = <<>> THEN 0
    ELSE 10 * Value(SubSeq(q, 1, Len(q) - 1)) + DigitValue(q[Len(q)])

\* q reads as digits, a point, two digits, with no padding in front
IsFixed2(q) ==
    /\ Len(q) >= 4
    /\ q[Len(q) - 2] = "."
    /\ \A i \in DOMAIN q \ {Len(q) - 2} : IsDigitChar(q[i])
    /\ Len(q) > 4 => q[1] # "0"

Hundredths(q) == Value(SubSeq(q, 1, Len(q) - 3) \o SubSeq(q, Len(q) - 1, Len(q)))

Body(q) == SubSeq(q, 1, Len(q) - 1)

\* C7: for a count n >= 0, format_num gives n / 1e9 to two decimals and "B"
\* when n >= 1,000,000,000, else n / 1e6 to two decimals and "M" when
\* n >= 1,000,000, else n in digits grouped by thousands and nothing after;
\* 0 -> "0", 999 -> "999", 1,500,000 -> "1.50M", 2,300,000,000 -> "2.30B".
FormatThresholds ==
    (pc = "formatted" /\ ~num.nan) =>
        /\ num.mil >= 1000 =>
              /\ text # <<>>
              /\ text[Len(text)] = "B"
              /\ IsFixed2(Body(text))
              /\ LET d == num.mil - 10 * Hundredths(Body(text)) IN
                    /\ d \in -10..10
                    /\ 2 * (d * Million + num.rem) \in -10 * Million .. 10 * Million
        /\ num.mil \in 1..999 =>
              /\ text # <<>>
              /\ text[Len(text)] = "M"
              /\ IsFixed2(Body(text))
              /\ LET x == Hundredths(Body(text)) - 100 * num.mil IN
                    /\ x \in 0..100
                    /\ 2 * (num.rem - x * 10000) \in -10000..10000
        /\ num.mil = 0 =>
              LET plain == SelectSeq(text, LAMBDA c : c # ",") IN
                    /\ plain # <<>>
                    /\ \A i \in DOMAIN plain : IsDigitChar(plain[i])
                    /\ Len(plain) > 1 => plain[1] # "0"
                    /\ Value(plain) = num.rem
                    /\ \A i \in DOMAIN text :
                          text[i] = "," <=> (Len(text) - i) % 4 = 3
        /\ num = Number(0, 0) => text = <<"0">>
        /\ num = Number(0, 999) => text = <<"9", "9", "9">>
        /\ num = Number(1, 500000) => text = <<"1", ".", "5", "0", "M">>
        /\ num = Number(2300, 0) => text = <<"2", ".", "3", "0", "B">>

FormatThresholdsWitness ==
    /\ pc = "formatted"
    /\ num = Number(2300, 0)
    /\ text = <<"2", ".", "3", "0", "B">>

\* C8: after a successful load, no execution raises in its filter or format
\* statements, whatever the controls hand over and whatever the metric is.
FilterAndFormatNeverRaise ==
    df # <<>> => IndexErrorDateRange \notin shown

\* C9: an execution whose snapshot could not be resolved has still rendered
\* the trend line, the choropleth, the vaccination bar and the testing
\* scatter when it ends.
MissingSnapshotKeepsCharts ==
    (pc \in Terminal /\ IndexErrorIloc \in shown) => Charts \subseteq shown

\* C10: whenever the cards are rendered, the record behind them is dated
\* latest_date, the date shown as "Last Updated" and used for map_df and
\* latest_selection.
CardsDateIsLatestDate ==
    "cards" \in shown => global_data.date = latest_date

====
